---- MODULE Spec2Model ----
(***************************************************************************)
(* PayU MCP server: the session token (utils/token_manager.py), the token  *)
(* refresh and the two request dispatchers (utils/network.py), and the     *)
(* payment-link customer resolution (tools/payment_link.py, server.py).    *)
(*                                                                         *)
(* Python strings are sequences of one-character strings, None is NoneVal, *)
(* a dict is a function whose DOMAIN is its key set.  Every action is the  *)
(* code that runs between two awaits of the asyncio event loop.            *)
(***************************************************************************)
EXTENDS Integers, Sequences, FiniteSets, TLC

\* refreshedOnce: a refresh_token call of this process has returned True
\* masked: one call of mask_email or mask_phone, its argument and its result
VARIABLES tm, now, proc, nInv, refreshedOnce, masked

vars == <<tm, now, proc, nInv, refreshedOnce, masked>>

(***************************************************************************)
(* Bounds of the model.                                                    *)
(***************************************************************************)
StartTime == 1000
MaxTicks == 1
MaxInvocations == 2
MaxRecords == 2
MaxMaskLen == 7

(***************************************************************************)
(* Python values.                                                          *)
(***************************************************************************)
NoneVal == <<"<None>">>
TypeErrorVal == <<"<TypeError>">>
ValueErrorVal == <<"<ValueError>">>
EmptyDict == [k \in {} |-> NoneVal]

Truthy(s) == s # NoneVal /\ s # <<>>

DictGet(d, k, default) == IF k \in DOMAIN d THEN d[k] ELSE default

DictSet(d, k, v) == [x \in DOMAIN d \cup {k} |-> IF x = k THEN v ELSE d[x]]

DictTruthy(b) == ~b.isNone /\ DOMAIN b.d # {}

NoneDict == [isNone |-> TRUE, d |-> EmptyDict]
SomeDict(dd) == [isNone |-> FALSE, d |-> dd]

Bearer == <<"B", "e", "a", "r", "e", "r">>
bearer == <<"b", "e", "a", "r", "e", "r">>
TokA1 == <<"A", "1">>
TokA2 == <<"A", "2">>
ApplicationJson == <<"j", "s", "o", "n">>
ClientIdVal == <<"c", "i", "d">>
ClientSecretVal == <<"s", "e", "c">>
MidVal == <<"M", "1">>

(***************************************************************************)
(* utils/network.py                                                        *)
(***************************************************************************)
SafetyMargin == 300

get_default_headers(t) ==
    LET headers == [k \in {"Accept", "mid"} |->
                       IF k = "Accept" THEN ApplicationJson ELSE t.mid]
    IN IF Truthy(t.access_token) /\ Truthy(t.token_type)
       THEN DictSet(headers, "Authorization", t.token_type \o <<" ">> \o t.access_token)
       ELSE headers

\* refresh_token, lines 40-42: the credentials check
CredentialsBothMissing(t) == ~Truthy(t.client_id) /\ ~Truthy(t.client_secret)

CredentialsMissing(t) == ~Truthy(t.client_id) \/ ~Truthy(t.client_secret)

\* refresh_token, lines 59-94; the value is <<token manager after, returned value>>
RefreshApply(t, time, resp) ==
    IF resp.kind # "json" THEN <<t, FALSE>>
    ELSE LET td == resp.body
             t1 == [t EXCEPT !.access_token = DictGet(td, "access_token", NoneVal),
                             !.token_type = DictGet(td, "token_type", NoneVal)]
         IN IF "expires_in" \notin DOMAIN td
            THEN <<t1, FALSE>>
            ELSE LET t2 == [t1 EXCEPT !.expires_at = time + td["expires_in"]]
                 IN <<t2, t2.access_token # NoneVal>>

\* ensure_valid_token, line 113
NeedsRefreshAlways(t, time) == TRUE

NeedsRefreshStrict(t, time) ==
    ~Truthy(t.access_token) \/ time > (t.expires_at - SafetyMargin)

NeedsRefresh(t, time) ==
    ~Truthy(t.access_token) \/ time >= (t.expires_at - SafetyMargin)

\* make_request, lines 143-150
RequestHeaders(t, hdrs) ==
    LET request_headers == IF ~hdrs.isNone THEN hdrs.d ELSE get_default_headers(t)
        auth_header == DictGet(request_headers, "Authorization", <<>>)
    IN IF auth_header = <<>> /\ Truthy(t.access_token)
       THEN DictSet(request_headers, "Authorization", Bearer \o <<" ">> \o t.access_token)
       ELSE request_headers

\* lines 154-157 and 210-213
Method(body) == IF DictTruthy(body) THEN "POST" ELSE "GET"

\* lines 159-169 and 215-228
ResponseDataKeepingFailures(resp) == SomeDict(resp.body)

ResponseData(resp) == IF resp.kind = "json" THEN SomeDict(resp.body) ELSE NoneDict

(***************************************************************************)
(* utils/utils.py                                                          *)
(***************************************************************************)
Digits == {"0", "1", "2", "3", "4", "5", "6", "7", "8", "9"}
NonZeroDigits == Digits \ {"0"}
Lower == {"a", "b", "c", "d", "e", "f", "g", "h", "i", "j", "k", "l", "m",
          "n", "o", "p", "q", "r", "s", "t", "u", "v", "w", "x", "y", "z"}
Upper == {"A", "B", "C", "D", "E", "F", "G", "H", "I", "J", "K", "L", "M",
          "N", "O", "P", "Q", "R", "S", "T", "U", "V", "W", "X", "Y", "Z"}
Letters == Lower \cup Upper
Whitespace == {" ", "\t", "\n"}

Range(s) == {s[i] : i \in 1..Len(s)}

Stars(n) == [i \in 1..n |-> "*"]

\* a pattern anchored by ^...$ matches s whole, or s without one final newline
Anchored(s) ==
    {s} \cup IF Len(s) > 0 /\ s[Len(s)] = "\n" THEN {SubSeq(s, 1, Len(s) - 1)} ELSE {}

\* \+?[1-9]\d{lo,hi}
PhonePattern(s, lo, hi) ==
    LET r == IF Len(s) > 0 /\ s[1] = "+" THEN Tail(s) ELSE s
    IN /\ Len(r) >= lo + 1
       /\ Len(r) <= hi + 1
       /\ r[1] \in NonZeroDigits
       /\ \A i \in 2..Len(r) : r[i] \in Digits

\* [a-zA-Z0-9._%+-]+@[a-zA-Z0-9.-]+\.[a-zA-Z]{2,}
EmailPattern(s) ==
    \E i \in 2..Len(s) : \E j \in (i + 2)..(Len(s) - 2) :
        /\ \A k \in 1..(i - 1) : s[k] \in Letters \cup Digits \cup {".", "_", "%", "+", "-"}
        /\ s[i] = "@"
        /\ \A k \in (i + 1)..(j - 1) : s[k] \in Letters \cup Digits \cup {".", "-"}
        /\ s[j] = "."
        /\ \A k \in (j + 1)..Len(s) : s[k] \in Letters

validate_email(email) == Truthy(email) /\ \E s \in Anchored(email) : EmailPattern(s)

validate_phone(phone) == Truthy(phone) /\ \E s \in Anchored(phone) : PhonePattern(s, 9, 14)

mask_email_from_four(email) ==
    IF email = NoneVal THEN TypeErrorVal
    ELSE IF "@" \notin Range(email) THEN email
    ELSE IF Cardinality({i \in 1..Len(email) : email[i] = "@"}) > 1 THEN ValueErrorVal
    ELSE LET at == CHOOSE i \in 1..Len(email) : email[i] = "@"
             username == SubSeq(email, 1, at - 1)
             domain == SubSeq(email, at + 1, Len(email))
             n == Len(username)
         IN IF n > 3
            THEN SubSeq(username, 1, 2) \o Stars(n - 4) \o SubSeq(username, n - 1, n)
                 \o <<"@">> \o domain
            ELSE IF n > 0
            THEN <<username[1]>> \o Stars(n - 1) \o <<"@">> \o domain
            ELSE email

mask_email(email) ==
    IF email = NoneVal THEN TypeErrorVal
    ELSE IF "@" \notin Range(email) THEN email
    ELSE IF Cardinality({i \in 1..Len(email) : email[i] = "@"}) > 1 THEN ValueErrorVal
    ELSE LET at == CHOOSE i \in 1..Len(email) : email[i] = "@"
             username == SubSeq(email, 1, at - 1)
             domain == SubSeq(email, at + 1, Len(email))
             n == Len(username)
         IN IF n > 4
            THEN SubSeq(username, 1, 2) \o Stars(n - 4) \o SubSeq(username, n - 1, n)
                 \o <<"@">> \o domain
            ELSE IF n > 0
            THEN <<username[1]>> \o Stars(n - 1) \o <<"@">> \o domain
            ELSE email

mask_phone_from_five(phone) ==
    IF phone = NoneVal THEN TypeErrorVal
    ELSE LET n == Len(phone)
         IN IF n >= 5
            THEN SubSeq(phone, 1, (n \div 2) - 2) \o Stars(4) \o SubSeq(phone, (n \div 2) + 3, n)
            ELSE phone

mask_phone(phone) ==
    IF phone = NoneVal THEN TypeErrorVal
    ELSE LET n == Len(phone)
         IN IF n >= 6
            THEN SubSeq(phone, 1, (n \div 2) - 2) \o Stars(4) \o SubSeq(phone, (n \div 2) + 3, n)
            ELSE phone

IsError(v) == v \in {TypeErrorVal, ValueErrorVal}

(***************************************************************************)
(* One invocation of an operation: its position, its arguments, and the    *)
(* record of what it did (log: one entry per make_request call).           *)
(***************************************************************************)
Procs == {"p1", "p2"}

Triple(t) == <<t.access_token, t.token_type, t.expires_at>>

NoReq == [url |-> <<>>, method |-> "NONE", headers |-> EmptyDict, body |-> NoneDict]

NoArgs == [amount |-> 0, description |-> <<>>, name |-> <<>>, phone |-> <<>>, email |-> <<>>]

NoRet == [kind |-> "pending", data |-> EmptyDict, tag |-> "", lines |-> <<>>]

JsonRet(d) == [kind |-> "json", data |-> d, tag |-> "", lines |-> <<>>]
NoneRet == [kind |-> "none", data |-> EmptyDict, tag |-> "", lines |-> <<>>]
RaiseRet(exc) == [kind |-> "raise", data |-> EmptyDict, tag |-> exc, lines |-> <<>>]
TextRet(tag, lines) == [kind |-> "text", data |-> EmptyDict, tag |-> tag, lines |-> lines]

IdleProc ==
    [pc |-> "idle", op |-> "none", args |-> NoArgs, hdrs |-> NoneDict,
     body |-> NoneDict, mrRet |-> NoneDict, ret |-> NoRet, log |-> <<>>,
     fetched |-> <<>>, search |-> "none", customers |-> <<>>, linkCalls |-> <<>>,
     raised |-> ""]

\* the entry of the log for a make_request call that has just been entered;
\* failed names the outbound request of the call that failed ("idp", "api")
MrEntry(stage, url) ==
    [stage |-> stage, url |-> url, needsRefresh |-> FALSE, refresh |-> "none",
     idpReqs |-> 0, sent |-> 0, req |-> NoReq, failed |-> "", ret |-> "pending"]

Last(pr) == pr.log[Len(pr.log)]

SetLast(pr, e) == [pr EXCEPT !.log = [@ EXCEPT ![Len(pr.log)] = e]]

\* make_request, lines 143-157: the request handed to the HTTP client
SendRequest(t, pr) ==
    LET e == Last(pr)
        req == [url |-> e.url, method |-> Method(pr.body),
                headers |-> RequestHeaders(t, pr.hdrs),
                body |-> IF Method(pr.body) = "POST" THEN pr.body ELSE NoneDict]
    IN [SetLast(pr, [e EXCEPT !.sent = @ + 1, !.req = req]) EXCEPT !.pc = "await_api"]

\* make_request returns data to its caller
MrReturn(pr, data) ==
    [SetLast(pr, [Last(pr) EXCEPT !.ret = IF data.isNone THEN "none" ELSE "json",
                                  !.req = NoReq])
       EXCEPT !.pc = "mr_returned", !.mrRet = data, !.hdrs = NoneDict, !.body = NoneDict]

\* make_request, lines 137-172, and ensure_valid_token, up to the first await
MakeRequestStart(t, time, pr0, stage, url, hdrs, body) ==
    LET pr == [pr0 EXCEPT !.hdrs = hdrs, !.body = body,
                          !.log = Append(@, MrEntry(stage, url))]
        e == Last(pr)
    IN IF ~NeedsRefresh(t, time)
       THEN SendRequest(t, pr)
       ELSE IF CredentialsMissing(t)
       THEN MrReturn(SetLast(pr, [e EXCEPT !.needsRefresh = TRUE, !.refresh = "false"]),
                     NoneDict)
       ELSE [SetLast(pr, [e EXCEPT !.needsRefresh = TRUE, !.refresh = "pending",
                                   !.idpReqs = @ + 1])
               EXCEPT !.pc = "await_idp"]

\* refresh_token has returned ok to ensure_valid_token, which returns it to make_request
AfterRefreshIgnoringResult(t, pr, ok) ==
    SendRequest(t, SetLast(pr, [Last(pr) EXCEPT !.refresh = IF ok THEN "true" ELSE "false"]))

AfterRefreshRetryingOnce(t, pr, ok) ==
    LET e == [Last(pr) EXCEPT !.refresh = IF ok THEN "true" ELSE "false"]
    IN IF ok THEN SendRequest(t, SetLast(pr, e))
       ELSE IF Last(pr).idpReqs < 2
       THEN [SetLast(pr, [Last(pr) EXCEPT !.idpReqs = @ + 1]) EXCEPT !.pc = "await_idp"]
       ELSE MrReturn(SetLast(pr, e), NoneDict)

AfterRefresh(t, pr, ok) ==
    LET e == [Last(pr) EXCEPT !.refresh = IF ok THEN "true" ELSE "false"]
    IN IF ok THEN SendRequest(t, SetLast(pr, e))
       ELSE MrReturn(SetLast(pr, e), NoneDict)

(***************************************************************************)
(* tools/payment_link.py                                                   *)
(***************************************************************************)
\* urllib.parse.quote_plus, one character
QuoteChar(c) ==
    IF c \in Letters \cup Digits \cup {"_", ".", "-", "~"} THEN <<c>>
    ELSE IF c = " " THEN <<"+">>
    ELSE IF c = "\t" THEN <<"%", "0", "9">>
    ELSE IF c = "\n" THEN <<"%", "0", "A">>
    ELSE <<"%", c>>

RECURSIVE quote_plus(_)
quote_plus(s) == IF s = <<>> THEN <<>> ELSE QuoteChar(Head(s)) \o quote_plus(Tail(s))

SearchUrl(search_text) == <<"/invoice/customer/customers?searchText=", quote_plus(search_text)>>
LinkUrl == <<"/payment-links">>
TransactionUrl == <<"/transactions/">>
SettlementUrl == <<"/settlements/details">>

parse_customer_response_unchecked(response) ==
    LET result == DictGet(response, "result", EmptyDict)
        customers == DictGet(result, "customerDetails", <<>>)
    IN [i \in 1..Len(customers) |->
           [name |-> DictGet(customers[i], "name", NoneVal),
            email |-> DictGet(customers[i], "email", NoneVal),
            phone |-> DictGet(customers[i], "phone", NoneVal)]]

parse_customer_response(response) ==
    IF "error" \in DOMAIN response THEN <<>>
    ELSE LET result == DictGet(response, "result", EmptyDict)
             customers == DictGet(result, "customerDetails", <<>>)
         IN [i \in 1..Len(customers) |->
                [name |-> DictGet(customers[i], "name", NoneVal),
                 email |-> DictGet(customers[i], "email", NoneVal),
                 phone |-> DictGet(customers[i], "phone", NoneVal)]]

\* server.py, lines 118-120: the tool turns an exception into a message
ToolRaised(pr, exc) ==
    [pr EXCEPT !.pc = "done", !.raised = exc, !.ret = TextRet("Error creating payment link", <<>>)]

\* create_payment_link_request, lines 145-162
AfterLink(pr) ==
    LET data == pr.mrRet
        c == pr.linkCalls[Len(pr.linkCalls)]
    IN IF ~DictTruthy(data) \/ "result" \notin DOMAIN data.d
       THEN [pr EXCEPT !.pc = "done", !.ret = TextRet("Failed to create payment link", <<>>)]
       ELSE IF IsError(mask_phone(c.phone)) THEN ToolRaised(pr, "TypeError")
       ELSE IF IsError(mask_email(c.email)) THEN ToolRaised(pr, "TypeError")
       ELSE [pr EXCEPT !.pc = "done",
                       !.ret = TextRet("link details",
                                       <<[name |-> c.name,
                                          paymentLink |-> DictGet(data.d["result"], "paymentLink",
                                                                  <<"No payment link found">>),
                                          phone |-> mask_phone(c.phone),
                                          email |-> mask_email(c.email)]>>)]

\* create_payment_link_request, lines 126-143
LinkBodyMasked(amount, description, name, phone, email) ==
    [viaSms |-> phone # <<>>, viaEmail |-> email # <<>>, subAmount |-> amount,
     description |-> description,
     customer |-> [email |-> mask_email(email), name |-> name, phone |-> mask_phone(phone)]]

LinkBody(amount, description, name, phone, email) ==
    [viaSms |-> phone # <<>>, viaEmail |-> email # <<>>, subAmount |-> amount,
     description |-> description,
     customer |-> [email |-> email, name |-> name, phone |-> phone]]

create_payment_link_request(t, time, pr, name, phone, email) ==
    LET pr1 == [pr EXCEPT !.linkCalls = Append(@, [name |-> name, phone |-> phone, email |-> email])]
        pr2 == MakeRequestStart(t, time, pr1, "link", LinkUrl, SomeDict(get_default_headers(t)),
                                SomeDict(LinkBody(pr.args.amount, pr.args.description,
                                                  name, phone, email)))
    IN IF pr2.pc = "mr_returned" THEN AfterLink(pr2) ELSE pr2

\* create_payment_link, lines 100-106
Listing(customers) ==
    [i \in 1..Len(customers) |->
        [num |-> i, name |-> customers[i].name,
         email |-> mask_email(customers[i].email),
         phone |-> mask_phone(customers[i].phone)]]

\* create_payment_link, lines 108-112
AdoptCustomer(customer, phone, email) ==
    [email |-> DictGet(customer, "email", email), phone |-> DictGet(customer, "phone", phone)]

\* create_payment_link, lines 78-82
CustomerDetailsSwapped(name, phone, email) == [name |-> name, phone |-> email, email |-> phone]

CustomerDetails(name, phone, email) == [name |-> name, phone |-> phone, email |-> email]

\* create_payment_link, line 100
MoreThanTwoCustomers(customer_response) == Len(customer_response) > 2

MultipleCustomers(customer_response) == Len(customer_response) > 1

\* fetch_customers, lines 20-23, and create_payment_link, lines 93-115
AfterSearch(t, time, pr) ==
    LET data == pr.mrRet
        a == pr.args
        customer_response == IF ~DictTruthy(data) THEN <<>> ELSE parse_customer_response(data.d)
        pr1 == [pr EXCEPT !.customers = customer_response,
                          !.search = IF data.isNone THEN "no data"
                                     ELSE IF "error" \in DOMAIN data.d THEN "error"
                                     ELSE "records"]
        customer_details == CustomerDetails(a.name, a.phone, a.email)
    IN IF Len(customer_response) = 0
       THEN create_payment_link_request(t, time, pr1, customer_details.name,
                                        customer_details.phone, customer_details.email)
       ELSE IF MultipleCustomers(customer_response)
       THEN IF \E i \in 1..Len(customer_response) :
                   IsError(Listing(customer_response)[i].email)
                   \/ IsError(Listing(customer_response)[i].phone)
            THEN ToolRaised(pr1, "TypeError")
            ELSE [pr1 EXCEPT !.pc = "done",
                             !.ret = TextRet("Multiple customers found", Listing(customer_response))]
       ELSE LET d == AdoptCustomer(customer_response[1], customer_details.phone,
                                   customer_details.email)
            IN create_payment_link_request(t, time, pr1, customer_details.name,
                                           d.phone, d.email)

\* the caller of a make_request call that has returned goes on
Continue(t, time, pr) ==
    IF pr.pc # "mr_returned" THEN pr
    ELSE IF Last(pr).stage = "search" THEN AfterSearch(t, time, pr)
    ELSE IF Last(pr).stage = "link" THEN AfterLink(pr)
    ELSE [pr EXCEPT !.pc = "done",
                    !.ret = IF pr.mrRet.isNone THEN NoneRet ELSE JsonRet(pr.mrRet.d)]

\* create_payment_link, line 89
SearchByNameNoValidation(name, phone, email) ==
    Truthy(name) /\ ~validate_email(email) /\ ~validate_phone(phone)

SearchByName(name, phone, email) == Truthy(name) /\ ~Truthy(email) /\ ~Truthy(phone)

\* create_payment_link, line 85
DirectIdentity(phone, email) == validate_email(email) \/ validate_phone(phone)

\* create_payment_link, lines 77-91, up to the first await
create_payment_link(t, time, pr) ==
    LET a == pr.args
        customer_details == CustomerDetails(a.name, a.phone, a.email)
    IN IF DirectIdentity(a.phone, a.email)
       THEN create_payment_link_request(t, time, pr, customer_details.name,
                                        customer_details.phone, customer_details.email)
       ELSE IF SearchByName(a.name, a.phone, a.email)
       THEN Continue(t, time,
                     MakeRequestStart(t, time, [pr EXCEPT !.fetched = Append(@, a.name)],
                                      "search", SearchUrl(a.name),
                                      SomeDict(get_default_headers(t)), NoneDict))
       ELSE create_payment_link_request(t, time, pr, customer_details.name,
                                        customer_details.phone, customer_details.email)

(***************************************************************************)
(* server.py, payment_link                                                 *)
(***************************************************************************)
RECURSIVE LStrip(_)
LStrip(s) == IF s # <<>> /\ Head(s) \in Whitespace THEN LStrip(Tail(s)) ELSE s

\* [\w\s-]+
NamePattern(s) ==
    Len(s) > 0 /\ \A i \in 1..Len(s) : s[i] \in Letters \cup Digits \cup {"_", "-"} \cup Whitespace

ServerPhonePattern(s) == PhonePattern(s, 1, 14)

\* lines 97-114, for arguments of the declared types; "" when the input passes
InputErrorZeroAmountAllowed(a) ==
    IF a.amount < 0 THEN "Invalid amount."
    ELSE IF LStrip(a.description) = <<>> THEN "Invalid description."
    ELSE IF Truthy(a.name) /\ ~\E s \in Anchored(a.name) : NamePattern(s)
    THEN "Invalid name format."
    ELSE IF Truthy(a.phone) /\ ~\E s \in Anchored(a.phone) : ServerPhonePattern(s)
    THEN "Invalid phone format."
    ELSE IF Truthy(a.email) /\ ~\E s \in Anchored(a.email) : EmailPattern(s)
    THEN "Invalid email format."
    ELSE ""

InputError(a) ==
    IF a.amount <= 0 THEN "Invalid amount."
    ELSE IF LStrip(a.description) = <<>> THEN "Invalid description."
    ELSE IF Truthy(a.name) /\ ~\E s \in Anchored(a.name) : NamePattern(s)
    THEN "Invalid name format."
    ELSE IF Truthy(a.phone) /\ ~\E s \in Anchored(a.phone) : ServerPhonePattern(s)
    THEN "Invalid phone format."
    ELSE IF Truthy(a.email) /\ ~\E s \in Anchored(a.email) : EmailPattern(s)
    THEN "Invalid email format."
    ELSE ""

payment_link(t, time, pr) ==
    IF InputError(pr.args) # ""
    THEN [pr EXCEPT !.pc = "done", !.ret = TextRet(InputError(pr.args), <<>>)]
    ELSE create_payment_link(t, time, pr)

(***************************************************************************)
(* make_request_with_direct_token, network.py lines 187-213, up to the     *)
(* first await.  The token manager is given no auth_token attribute by     *)
(* PayUTokenManager.__new__, so reading it raises AttributeError.          *)
(***************************************************************************)
DirectTokenStartViaSession(t, time, pr0, url, hdrs, body) ==
    MakeRequestStart(t, time, pr0, "static", url, hdrs, body)

DirectTokenStart(t, time, pr0, url, hdrs, body) ==
    LET pr == [pr0 EXCEPT !.hdrs = hdrs, !.body = body,
                          !.log = Append(@, MrEntry("static", url))]
        e == Last(pr)
    IN IF "auth_token" \notin DOMAIN t
       THEN [SetLast(pr, [e EXCEPT !.ret = "raise"])
               EXCEPT !.pc = "done", !.raised = "AttributeError",
                      !.ret = RaiseRet("AttributeError")]
       ELSE IF ~Truthy(t["auth_token"])
       THEN MrReturn(pr, NoneDict)
       ELSE LET h0 == IF ~hdrs.isNone THEN hdrs.d
                      ELSE [k \in {"Accept"} |-> ApplicationJson]
                h1 == IF Truthy(t.mid) THEN DictSet(h0, "mid", t.mid) ELSE h0
                h2 == DictSet(h1, "Authorization", Bearer \o <<" ">> \o t["auth_token"])
                req == [url |-> url, method |-> Method(body), headers |-> h2,
                        body |-> IF Method(body) = "POST" THEN body ELSE NoneDict]
            IN [SetLast(pr, [e EXCEPT !.sent = @ + 1, !.req = req])
                  EXCEPT !.pc = "await_api"]

(***************************************************************************)
(* The environment: configuration, callers' inputs, the servers' answers.  *)
(***************************************************************************)
\* expires_in stays in the range of datetime.fromtimestamp, so the log lines
\* 75 and 106 of network.py do not raise
AccessTokens == {<<>>, TokA1, TokA2}
TokenTypes == {Bearer, bearer}
ExpiresInValues == {0, SafetyMargin + 1}

TokenBody(ks, a, ty, e) ==
    [k \in ks |-> IF k = "access_token" THEN a ELSE IF k = "token_type" THEN ty ELSE e]

TokenBodies ==
    {TokenBody(ks, a, ty, e) : ks \in SUBSET {"access_token", "token_type", "expires_in"},
                               a \in AccessTokens, ty \in TokenTypes, e \in ExpiresInValues}

Failures == {[kind |-> k, body |-> EmptyDict] :
                k \in {"timeout", "connect_error", "status_error", "bad_json"}}

\* the mark left in the log by a request that timed out, could not connect,
\* was answered with an error status, or was answered with a body that is not JSON
Failed(resp, which) == IF resp \in Failures THEN which ELSE ""

IdpResponses ==
    Failures \cup {[kind |-> "json_not_object", body |-> EmptyDict]}
             \cup {[kind |-> "json", body |-> b] : b \in TokenBodies}

NameAB == <<"A", " ", "B">>
ShortPhone == <<"1", "2", "3", "4", "5">>
GoodPhone == <<"9", "8", "7", "6", "5", "4", "3", "2", "1", "0">>
GoodEmail == <<"a", "b", "@", "x", ".", "i", "o">>

Amounts == {0, 100}
Descriptions == {<<" ">>, <<"d">>}
Names == {<<>>, NameAB, <<"#">>}
Phones == {<<>>, ShortPhone, GoodPhone, <<"0">>}
Emails == {<<>>, GoodEmail, <<"b", "a", "d">>}

CustomerRecord(ks, e, ph) ==
    [k \in ks \cup {"name"} |-> IF k = "name" THEN NameAB ELSE IF k = "email" THEN e ELSE ph]

CustomerRecords ==
    {CustomerRecord({"email", "phone"}, GoodEmail, GoodPhone),
     CustomerRecord({"email", "phone"}, <<>>, GoodPhone),
     CustomerRecord({"phone"}, <<>>, GoodPhone),
     CustomerRecord({"email"}, GoodEmail, <<>>)}

CustomerLists == UNION {[1..k -> CustomerRecords] : k \in 0..MaxRecords}

DirectoryBodies ==
    {EmptyDict, [error |-> <<"e">>], [result |-> EmptyDict],
     [error |-> <<"e">>,
      result |-> [customerDetails |-> <<CustomerRecord({"email", "phone"}, GoodEmail, GoodPhone)>>]]}
    \cup {[result |-> [customerDetails |-> cs]] : cs \in CustomerLists}

LinkBodies ==
    {EmptyDict, [message |-> <<"m">>], [result |-> EmptyDict],
     [result |-> [paymentLink |-> <<"L">>]]}

ApiBodies == {EmptyDict, [status |-> <<"o", "k">>]}

ApiResponses(stage) ==
    Failures \cup {[kind |-> "json", body |-> b] :
                      b \in IF stage = "search" THEN DirectoryBodies
                            ELSE IF stage = "link" THEN LinkBodies
                            ELSE ApiBodies}

\* no masking function has been called
NoMask == [fn |-> "none", arg |-> <<>>, res |-> <<>>]

\* token_manager.py, lines 11-17, and the idle server
InitProgram ==
    /\ tm \in [access_token : {NoneVal}, token_type : {NoneVal}, expires_at : {0},
                client_id : {NoneVal, ClientIdVal},
                client_secret : {NoneVal, ClientSecretVal},
                mid : {NoneVal, MidVal}]
    /\ now = StartTime
    /\ proc = [p \in Procs |-> IdleProc]
    /\ nInv = 0
    /\ refreshedOnce = FALSE

Init == InitProgram /\ masked = NoMask

Tick ==
    /\ now < StartTime + MaxTicks
    /\ now' = now + 1
    /\ UNCHANGED <<tm, proc, nInv, refreshedOnce, masked>>

\* a tool calls make_request(url, get_default_headers())
CallSession(p) ==
    /\ proc[p].pc = "idle"
    /\ nInv < MaxInvocations
    /\ nInv' = nInv + 1
    /\ proc' = [proc EXCEPT ![p] =
                   Continue(tm, now,
                            MakeRequestStart(tm, now, [IdleProc EXCEPT !.op = "session"], "api",
                                             TransactionUrl, SomeDict(get_default_headers(tm)),
                                             NoneDict))]
    /\ UNCHANGED <<tm, now, refreshedOnce, masked>>

\* a tool calls make_request_with_direct_token(url)
CallStatic(p) ==
    /\ proc[p].pc = "idle"
    /\ nInv < MaxInvocations
    /\ nInv' = nInv + 1
    /\ proc' = [proc EXCEPT ![p] =
                   Continue(tm, now,
                            DirectTokenStart(tm, now, [IdleProc EXCEPT !.op = "static"],
                                             SettlementUrl, NoneDict, NoneDict))]
    /\ UNCHANGED <<tm, now, refreshedOnce, masked>>

CallPaymentLink(p) ==
    /\ proc[p].pc = "idle"
    /\ nInv < MaxInvocations
    /\ nInv' = nInv + 1
    /\ \E a \in [amount : Amounts, description : Descriptions, name : Names,
                   phone : Phones, email : Emails] :
          proc' = [proc EXCEPT ![p] =
                      payment_link(tm, now, [IdleProc EXCEPT !.op = "payment_link", !.args = a])]
    /\ UNCHANGED <<tm, now, refreshedOnce, masked>>

\* the identity provider answers: refresh_token lines 66-94, then the callers
IdpResponse(p) ==
    /\ proc[p].pc = "await_idp"
    /\ \E resp \in IdpResponses :
          LET r == RefreshApply(tm, now, resp)
              pr == SetLast(proc[p], [Last(proc[p]) EXCEPT !.failed = Failed(resp, "idp")])
          IN /\ tm' = r[1]
             /\ refreshedOnce' = (refreshedOnce \/ r[2])
             /\ proc' = [proc EXCEPT ![p] = Continue(r[1], now, AfterRefresh(r[1], pr, r[2]))]
    /\ UNCHANGED <<now, nInv, masked>>

\* the payment API answers: make_request lines 159-169, then the callers
ApiResponse(p) ==
    /\ proc[p].pc = "await_api"
    /\ \E resp \in ApiResponses(Last(proc[p]).stage) :
          LET pr == SetLast(proc[p], [Last(proc[p]) EXCEPT !.failed = Failed(resp, "api")])
          IN proc' = [proc EXCEPT ![p] = Continue(tm, now, MrReturn(pr, ResponseData(resp)))]
    /\ UNCHANGED <<tm, now, nInv, refreshedOnce, masked>>

\* the result has been handed to the caller
Return(p) ==
    /\ proc[p].pc = "done"
    /\ proc' = [proc EXCEPT ![p] = IdleProc]
    /\ UNCHANGED <<tm, now, nInv, refreshedOnce, masked>>

Step(p) ==
    \/ CallSession(p)
    \/ CallStatic(p)
    \/ CallPaymentLink(p)
    \/ IdpResponse(p)
    \/ ApiResponse(p)
    \/ Return(p)

\* one invocation at a time
Next == Tick \/ Step("p1")

Spec == Init /\ [][Next]_vars

(***************************************************************************)
(* Several session-mode calls in flight at once: the event loop runs the   *)
(* code between two awaits of any of them.  Leaving the async with block   *)
(* of refresh_token (line 87) is taken not to suspend.                     *)
(***************************************************************************)
StepSession(p) ==
    \/ CallSession(p)
    \/ IdpResponse(p)
    \/ ApiResponse(p)
    \/ Return(p)

NextConcurrent == Tick \/ \E p \in Procs : StepSession(p)

SpecConcurrent == Init /\ [][NextConcurrent]_vars

(***************************************************************************)
(* One invocation of any operation, started with the token state of a      *)
(* fresh process or with a stored token, expired or usable, and with every *)
(* outbound HTTP call completing or timing out: the answer of a request in *)
(* flight eventually arrives.  The clock stands still during the           *)
(* invocation.                                                             *)
(***************************************************************************)
StoredToken(expires_at, mid) ==
    [access_token |-> TokA1, token_type |-> Bearer, expires_at |-> expires_at,
     client_id |-> ClientIdVal, client_secret |-> ClientSecretVal, mid |-> mid]

InitLive ==
    \/ Init
    \/ /\ tm \in {StoredToken(e, m) : e \in {StartTime, StartTime + SafetyMargin + 1},
                                      m \in {NoneVal, MidVal}}
       /\ now = StartTime
       /\ proc = [p \in Procs |-> IdleProc]
       /\ nInv = 0
       /\ refreshedOnce = TRUE
       /\ masked = NoMask

FirstCall(p) == nInv = 0 /\ (CallSession(p) \/ CallStatic(p) \/ CallPaymentLink(p))

NextLive ==
    \/ FirstCall("p1")
    \/ IdpResponse("p1")
    \/ ApiResponse("p1")
    \/ Return("p1")

SpecLive ==
    /\ InitLive
    /\ [][NextLive]_vars
    /\ WF_vars(IdpResponse("p1"))
    /\ WF_vars(ApiResponse("p1"))

(***************************************************************************)
(* The two dispatcher entry points called directly, with every kind of     *)
(* headers and body argument their signatures admit.                       *)
(***************************************************************************)
CallerBodies == {NoneDict, SomeDict(EmptyDict), SomeDict([k |-> <<"v">>])}

CallerHeaders(t) ==
    {NoneDict, SomeDict(get_default_headers(t)), SomeDict([X |-> <<"x">>])}

\* make_request(url, headers, body)
CallMakeRequest(p) ==
    /\ proc[p].pc = "idle"
    /\ nInv < MaxInvocations
    /\ nInv' = nInv + 1
    /\ \E hdrs \in CallerHeaders(tm) : \E body \in CallerBodies :
          proc' = [proc EXCEPT ![p] =
                      Continue(tm, now,
                               MakeRequestStart(tm, now, [IdleProc EXCEPT !.op = "session"],
                                                "api", TransactionUrl, hdrs, body))]
    /\ UNCHANGED <<tm, now, refreshedOnce, masked>>

\* make_request_with_direct_token(url, headers, body)
CallDirectToken(p) ==
    /\ proc[p].pc = "idle"
    /\ nInv < MaxInvocations
    /\ nInv' = nInv + 1
    /\ \E hdrs \in CallerHeaders(tm) : \E body \in CallerBodies :
          proc' = [proc EXCEPT ![p] =
                      Continue(tm, now,
                               DirectTokenStart(tm, now, [IdleProc EXCEPT !.op = "static"],
                                                SettlementUrl, hdrs, body))]
    /\ UNCHANGED <<tm, now, refreshedOnce, masked>>

NextDispatch ==
    \/ Tick
    \/ CallMakeRequest("p1")
    \/ CallDirectToken("p1")
    \/ IdpResponse("p1")
    \/ ApiResponse("p1")
    \/ Return("p1")

SpecDispatch == Init /\ [][NextDispatch]_vars

(***************************************************************************)
(* utils/utils.py, mask_email and mask_phone applied to one string.        *)
(***************************************************************************)
MaskAlphabet == {"a", "b", "@"}

AliceEmail == <<"a", "l", "i", "c", "e", ".", "w", "o", "n", "d", "e", "r", "@", "e", "x", "a", "m", "p", "l", "e", ".", "c", "o", "m">>
AbEmail == <<"a", "b", "@", "e", "x", "a", "m", "p", "l", "e", ".", "c", "o", "m">>

MaskInputs ==
    UNION {[1..n -> MaskAlphabet] : n \in 0..MaxMaskLen} \cup {AliceEmail, AbEmail, GoodPhone}

InitMask ==
    /\ InitProgram
    /\ masked \in {[fn |-> "none", arg |-> s, res |-> <<>>] : s \in MaskInputs}

MaskEmail ==
    /\ masked.fn = "none"
    /\ masked' = [masked EXCEPT !.fn = "mask_email", !.res = mask_email(masked.arg)]
    /\ UNCHANGED <<tm, now, proc, nInv, refreshedOnce>>

MaskPhone ==
    /\ masked.fn = "none"
    /\ masked' = [masked EXCEPT !.fn = "mask_phone", !.res = mask_phone(masked.arg)]
    /\ UNCHANGED <<tm, now, proc, nInv, refreshedOnce>>

NextMask == MaskEmail \/ MaskPhone

SpecMask == InitMask /\ [][NextMask]_vars

(***************************************************************************)
(* What a step did, read off the logs of the invocations.                  *)
(***************************************************************************)
\* entry i of p's log is new in this step, or was changed by it
EntryTouched(p, i) ==
    /\ i \in 1..Len(proc'[p].log)
    /\ i > Len(proc[p].log) \/ proc[p].log[i] # proc'[p].log[i]

EntryAdded(p, i) == i \in 1..Len(proc'[p].log) /\ i > Len(proc[p].log)

\* a refresh_token call returned False in this step
RefreshReturnedFalse(p) ==
    \E i \in 1..Len(proc'[p].log) :
        /\ EntryTouched(p, i)
        /\ proc'[p].log[i].refresh = "false"
        /\ i > Len(proc[p].log) \/ proc[p].log[i].refresh # "false"

\* entry i's request was handed to the HTTP client in this step
RequestSent(p, i) ==
    /\ EntryTouched(p, i)
    /\ proc'[p].log[i].sent = 1
    /\ i > Len(proc[p].log) \/ proc[p].log[i].sent = 0

SessionEntries(pr) == {i \in 1..Len(pr.log) : pr.log[i].stage # "static"}

Present(token) == token # NoneVal /\ token # <<>>

(***************************************************************************)
(* C1: a refresh_token call that returns False leaves (access_token,       *)
(* token_type, expires_at) as it was before the call.                      *)
(***************************************************************************)
C1_FailedRefreshKeepsTriple ==
    [][\A p \in Procs : RefreshReturnedFalse(p) => Triple(tm') = Triple(tm)]_vars

LowerLetters == <<"a", "b", "c", "d", "e", "f", "g", "h", "i", "j", "k", "l", "m",
                  "n", "o", "p", "q", "r", "s", "t", "u", "v", "w", "x", "y", "z">>
UpperLetters == <<"A", "B", "C", "D", "E", "F", "G", "H", "I", "J", "K", "L", "M",
                  "N", "O", "P", "Q", "R", "S", "T", "U", "V", "W", "X", "Y", "Z">>

LowerCase(s) ==
    [i \in 1..Len(s) |->
        IF s[i] \in Upper
        THEN LowerLetters[CHOOSE k \in 1..Len(UpperLetters) : UpperLetters[k] = s[i]]
        ELSE s[i]]

\* header is "<ty> <tok>", the scheme compared without regard to case as HTTP does
SameCredentials(header, ty, tok) ==
    LET n == Len(ty) + 1
    IN /\ Len(header) = n + Len(tok)
       /\ LowerCase(SubSeq(header, 1, n)) = LowerCase(ty \o <<" ">>)
       /\ SubSeq(header, n + 1, Len(header)) = tok

(***************************************************************************)
(* C2: every request a session-mode call sends carries the Authorization   *)
(* header "<token_type> <access_token>" of the token state as it stands    *)
(* after the call's validity check.  Read in the claim's favour: only for  *)
(* the calls whose token state then holds both a token and a type, in      *)
(* invocations none of whose refreshes returned False, and with the scheme *)
(* compared without regard to case.                                        *)
(***************************************************************************)
C2_RequestCarriesCurrentToken ==
    [][\A p \in Procs : \A i \in SessionEntries(proc'[p]) :
          /\ RequestSent(p, i)
          /\ Present(tm'.access_token)
          /\ Present(tm'.token_type)
          /\ \A k \in 1..Len(proc'[p].log) : proc'[p].log[k].refresh # "false"
          =>  LET headers == proc'[p].log[i].req.headers
              IN /\ "Authorization" \in DOMAIN headers
                 /\ SameCredentials(headers["Authorization"], tm'.token_type,
                                    tm'.access_token)]_vars

(***************************************************************************)
(* C3: make_request and make_request_with_direct_token return the parsed   *)
(* JSON or None; no exception reaches the caller.                          *)
(***************************************************************************)
C3_DispatcherNeverRaises ==
    \A p \in Procs :
        proc[p].op \in {"session", "static"} /\ proc[p].pc = "done"
            => proc[p].ret.kind \in {"json", "none"}

(***************************************************************************)
(* C4: a session-mode call whose token is unusable and whose refresh fails *)
(* returns None and sends no request to the target URL.                    *)
(***************************************************************************)
C4_FailedRefreshSendsNothing ==
    \A p \in Procs : \A i \in SessionEntries(proc[p]) :
        LET e == proc[p].log[i]
        IN e.needsRefresh /\ e.refresh = "false" => e.ret = "none" /\ e.sent = 0

C4_Witness ==
    \E p \in Procs : \E i \in SessionEntries(proc[p]) :
        LET e == proc[p].log[i]
        IN /\ e.needsRefresh /\ e.refresh = "false" /\ e.idpReqs = 1
           /\ e.ret = "none" /\ e.sent = 0
           /\ proc[p].op = "session" /\ proc[p].pc = "done" /\ proc[p].ret.kind = "none"

(***************************************************************************)
(* C5: the validity check treats the token as usable iff an access token   *)
(* is present and now < expires_at - 300; at now = expires_at - 300 the    *)
(* token is unusable and a refresh is triggered.                           *)
(***************************************************************************)
C5_UsableIffBeforeMargin ==
    [][\A p \in Procs : \A i \in SessionEntries(proc'[p]) :
          EntryAdded(p, i) =>
              (proc'[p].log[i].refresh = "none"
                  <=> Present(tm'.access_token) /\ now' < tm'.expires_at - 300)
              /\ (proc'[p].log[i].refresh = "none" <=> ~proc'[p].log[i].needsRefresh)]_vars

C5_Witness ==
    \E p \in Procs :
        /\ proc[p].pc = "await_idp"
        /\ Last(proc[p]).needsRefresh
        /\ Last(proc[p]).idpReqs = 1
        /\ Present(tm.access_token)
        /\ now = tm.expires_at - 300

(***************************************************************************)
(* The payment_link invocations that reached create_payment_link.          *)
(***************************************************************************)
InCreatePaymentLink(pr) ==
    pr.op = "payment_link" /\ pr.pc # "idle" /\ InputError(pr.args) = ""

StageEntries(pr, stage) == {i \in 1..Len(pr.log) : pr.log[i].stage = stage}

\* requests handed to the HTTP client for the calls of one stage
StageRequests(pr, stage) == {i \in StageEntries(pr, stage) : pr.log[i].sent > 0}

(***************************************************************************)
(* C6: when the name search returns N >= 2 records, no link creation       *)
(* request is issued and the returned text lists exactly N candidates,     *)
(* numbered 1..N.                                                          *)
(***************************************************************************)
C6_MultipleMatchesListed ==
    \A p \in Procs :
        LET pr == proc[p]
        IN InCreatePaymentLink(pr) /\ Len(pr.customers) >= 2 =>
              /\ pr.linkCalls = <<>>
              /\ StageEntries(pr, "link") = {}
              /\ pr.pc = "done"
              /\ pr.ret.tag = "Multiple customers found"
              /\ Len(pr.ret.lines) = Len(pr.customers)
              /\ \A i \in 1..Len(pr.ret.lines) : pr.ret.lines[i].num = i

(***************************************************************************)
(* C7: with exactly one record found, the email and phone passed to link   *)
(* creation are the record's, except that a field that is empty or absent  *)
(* in the record is replaced by the value the caller supplied.             *)
(***************************************************************************)
C7_SingleMatchAdoptedWithFallback ==
    \A p \in Procs :
        LET pr == proc[p]
        IN InCreatePaymentLink(pr) /\ Len(pr.customers) = 1 /\ pr.search = "records" =>
              /\ Len(pr.linkCalls) = 1
              /\ pr.linkCalls[1].email = IF Present(pr.customers[1].email)
                                         THEN pr.customers[1].email ELSE pr.args.email
              /\ pr.linkCalls[1].phone = IF Present(pr.customers[1].phone)
                                         THEN pr.customers[1].phone ELSE pr.args.phone

(***************************************************************************)
(* C8, as claimed: one directory search, keyed by the name, whenever a     *)
(* name is present and neither the email nor the phone validates.          *)
(***************************************************************************)
C8_SearchWheneverNothingValidates ==
    \A p \in Procs :
        LET pr == proc[p]
        IN /\ InCreatePaymentLink(pr)
           /\ Truthy(pr.args.name)
           /\ ~validate_email(pr.args.email)
           /\ ~validate_phone(pr.args.phone)
           => pr.fetched = <<pr.args.name>>

(***************************************************************************)
(* C8, amended: one directory search, keyed by the name, whenever a name   *)
(* is present and the supplied email and phone are both empty; no search   *)
(* in every other case, a non-empty email or phone that fails validation   *)
(* included.                                                               *)
(***************************************************************************)
C8_SearchIffNameOnly ==
    \A p \in Procs :
        LET pr == proc[p]
            a == pr.args
        IN InCreatePaymentLink(pr) =>
              IF Truthy(a.name) /\ a.email = <<>> /\ a.phone = <<>>
              THEN /\ pr.fetched = <<a.name>>
                   /\ Cardinality(StageEntries(pr, "search")) = 1
                   /\ \A i \in StageEntries(pr, "search") : pr.log[i].url = SearchUrl(a.name)
              ELSE pr.fetched = <<>> /\ StageEntries(pr, "search") = {}

C8_Witness ==
    \E p \in Procs :
        /\ InCreatePaymentLink(proc[p])
        /\ proc[p].args.name = NameAB
        /\ proc[p].fetched = <<NameAB>>
        /\ proc[p].pc = "await_api"
        /\ Last(proc[p]).stage = "search"
        /\ Last(proc[p]).req.url = <<"/invoice/customer/customers?searchText=", <<"A", "+", "B">>>>

(***************************************************************************)
(* C9: when the email passes validate_email or the phone passes            *)
(* validate_phone, no directory search is made and link creation is        *)
(* invoked with exactly the name, phone and email that were given.         *)
(***************************************************************************)
C9_DirectIdentityAsGiven ==
    \A p \in Procs :
        LET pr == proc[p]
            a == pr.args
        IN InCreatePaymentLink(pr) /\ (validate_email(a.email) \/ validate_phone(a.phone)) =>
              /\ pr.fetched = <<>>
              /\ StageEntries(pr, "search") = {}
              /\ pr.linkCalls = <<[name |-> a.name, phone |-> a.phone, email |-> a.email]>>
              /\ \A i \in StageRequests(pr, "link") :
                     pr.pc = "await_api" =>
                        pr.log[i].req.body.d["customer"]
                            = [email |-> a.email, name |-> a.name, phone |-> a.phone]

C9_Witness ==
    \E p \in Procs :
        /\ InCreatePaymentLink(proc[p])
        /\ proc[p].args.phone = GoodPhone
        /\ proc[p].args.email = <<>>
        /\ proc[p].args.name = NameAB
        /\ proc[p].pc = "await_api"
        /\ Last(proc[p]).stage = "link"
        /\ Last(proc[p]).req.method = "POST"

(***************************************************************************)
(* C10: when the search yields no record, or fails (no data from the       *)
(* dispatcher, or a body with an error key), link creation is invoked      *)
(* with the supplied name and with empty email and phone.                  *)
(***************************************************************************)
C10_NoMatchUsesNameOnly ==
    \A p \in Procs :
        LET pr == proc[p]
        IN /\ InCreatePaymentLink(pr)
           /\ \/ pr.search \in {"no data", "error"}
              \/ pr.search = "records" /\ pr.customers = <<>>
           => pr.linkCalls = <<[name |-> pr.args.name, phone |-> <<>>, email |-> <<>>]>>

C10_Witness ==
    \E p \in Procs :
        /\ InCreatePaymentLink(proc[p])
        /\ proc[p].search = "error"
        /\ proc[p].args.name = NameAB
        /\ Len(proc[p].linkCalls) = 1
        /\ proc[p].pc = "await_api"
        /\ Last(proc[p]).stage = "link"

(***************************************************************************)
(* C11: for every combination of name, email and phone and every search    *)
(* outcome, create_payment_link invokes link creation exactly once, except *)
(* when the search returned more than one record: then zero times.         *)
(***************************************************************************)
C11_LinkCreationExactlyOnce ==
    \A p \in Procs :
        LET pr == proc[p]
        IN InCreatePaymentLink(pr) =>
              /\ Len(pr.linkCalls) <= 1
              /\ Cardinality(StageEntries(pr, "link")) = Len(pr.linkCalls)
              /\ Len(pr.customers) > 1 => pr.linkCalls = <<>>
              /\ pr.pc = "done" =>
                    Len(pr.linkCalls) = IF Len(pr.customers) > 1 THEN 0 ELSE 1

C11_Witness ==
    \E p \in Procs :
        /\ InCreatePaymentLink(proc[p])
        /\ proc[p].pc = "done"
        /\ proc[p].args.name = <<>> /\ proc[p].args.phone = <<>> /\ proc[p].args.email = <<>>
        /\ proc[p].linkCalls = <<[name |-> <<>>, phone |-> <<>>, email |-> <<>>]>>
        /\ Cardinality(StageRequests(proc[p], "link")) = 1

(***************************************************************************)
(* C12: with the OAuth client id or secret absent, a session-mode call     *)
(* returns None, while a static-mode call returns the parsed JSON body     *)
(* unless its HTTP exchange failed.  No code reads a static token from the *)
(* process environment, so the claim's "static token present" puts no      *)
(* condition on the state.                                                 *)
(***************************************************************************)
C12_StaticModeServesWithoutOAuth ==
    \A p \in Procs :
        LET pr == proc[p]
        IN CredentialsMissing(tm) /\ pr.pc = "done" =>
              /\ pr.op = "session" => pr.ret.kind = "none"
              /\ pr.op = "static" => pr.ret.kind = "json" \/ Last(pr).failed = "api"

(***************************************************************************)
(* C13: with no static token configured, a static-mode call returns None   *)
(* and sends no HTTP request.                                              *)
(***************************************************************************)
StaticTokenUnset(t) == "auth_token" \notin DOMAIN t \/ ~Truthy(t["auth_token"])

C13_StaticModeFailsFast ==
    \A p \in Procs :
        LET pr == proc[p]
        IN pr.op = "static" /\ pr.pc = "done" /\ StaticTokenUnset(tm) =>
              /\ pr.ret.kind = "none"
              /\ \A i \in 1..Len(pr.log) : pr.log[i].sent = 0

(***************************************************************************)
(* C14: under every interleaving of concurrent session-mode calls, the     *)
(* triple (access_token, token_type, expires_at) is in every state either  *)
(* the initial one or the triple one single token response writes: its     *)
(* access_token, its token_type, and the time of its arrival plus its      *)
(* expires_in.                                                             *)
(***************************************************************************)
InitialTriple == <<NoneVal, NoneVal, 0>>

\* the triple the response body b, arriving at time t, writes
ResponseTriple(b, t) ==
    <<DictGet(b, "access_token", NoneVal), DictGet(b, "token_type", NoneVal),
      t + b["expires_in"]>>

C14_TripleFromOneResponse ==
    \/ Triple(tm) = InitialTriple
    \/ \E b \in TokenBodies : \E t \in StartTime..now :
          "expires_in" \in DOMAIN b /\ Triple(tm) = ResponseTriple(b, t)

\* a refresh_token call returned True in this step
RefreshReturnedTrue(p) ==
    \E i \in 1..Len(proc'[p].log) :
        /\ EntryTouched(p, i)
        /\ proc'[p].log[i].refresh = "true"
        /\ i > Len(proc[p].log) \/ proc[p].log[i].refresh # "true"

(***************************************************************************)
(* C15: token_type is set if and only if access_token is set.  Read in the *)
(* claim's favour: only in the states left by a refresh that returned      *)
(* True, a token counting as set only when it is a non-empty string and as *)
(* unset only when it is None.                                             *)
(***************************************************************************)
C15_TypeSetIffTokenSet ==
    [][\A p \in Procs :
          RefreshReturnedTrue(p) =>
              /\ Present(tm'.access_token) => tm'.token_type # NoneVal
              /\ Present(tm'.token_type) => tm'.access_token # NoneVal]_vars

(***************************************************************************)
(* C16: whenever a refresh stores an access token, the expires_at it       *)
(* stores is strictly greater than the time of the store.  Read in the     *)
(* claim's favour: only for the refreshes that return True.                *)
(***************************************************************************)
C16_StoredExpiryInFuture ==
    [][\A p \in Procs :
          RefreshReturnedTrue(p) /\ Present(tm'.access_token) => tm'.expires_at > now']_vars

(***************************************************************************)
(* C17: refresh_token returns True only if the access token held in the    *)
(* session state after the call is non-empty.                              *)
(***************************************************************************)
C17_TrueOnlyWithNonEmptyToken ==
    [][\A p \in Procs : RefreshReturnedTrue(p) => Present(tm'.access_token)]_vars

(***************************************************************************)
(* C18: the process starts with access_token unset and expires_at 0, and   *)
(* every request a session-mode call sends to the payment API comes after  *)
(* a refresh of this process that returned True.                           *)
(***************************************************************************)
C18_RefreshBeforeFirstRequest ==
    /\ tm.access_token = NoneVal /\ tm.expires_at = 0
    /\ [][\A p \in Procs : \A i \in SessionEntries(proc'[p]) :
             RequestSent(p, i) => refreshedOnce']_vars

(***************************************************************************)
(* C19: no retries.  One dispatcher call issues at most one request to the *)
(* identity provider and at most one to the target URL, a session-mode or  *)
(* static-mode invocation is one dispatcher call, and a call whose request *)
(* failed has returned None, without a further request.                    *)
(***************************************************************************)
C19_NoRetries ==
    \A p \in Procs :
        LET pr == proc[p]
        IN /\ pr.op \in {"session", "static"} => Len(pr.log) <= 1
           /\ \A i \in 1..Len(pr.log) :
                 LET e == pr.log[i]
                 IN /\ e.idpReqs <= 1
                    /\ e.sent <= 1
                    /\ e.stage = "static" => e.idpReqs = 0
                    /\ e.failed = "idp" => e.ret = "none" /\ e.sent = 0 /\ e.idpReqs = 1
                    /\ e.failed = "api" => e.ret = "none" /\ e.sent = 1
                    /\ e.failed # "" /\ pr.op = "session" =>
                          pr.pc = "done" /\ pr.ret.kind = "none"

C19_Witness ==
    \E p \in Procs :
        /\ proc[p].op = "session"
        /\ proc[p].pc = "done"
        /\ proc[p].ret.kind = "none"
        /\ Len(proc[p].log) = 1
        /\ Last(proc[p]).failed = "api"
        /\ Last(proc[p]).idpReqs = 1
        /\ Last(proc[p]).sent = 1

(***************************************************************************)
(* C20: a payment_link invocation with amount <= 0 returns the validation  *)
(* error with no dispatcher call: no refresh, no directory search, no      *)
(* link-creation request.                                                  *)
(***************************************************************************)
C20_BadAmountCallsNothing ==
    \A p \in Procs :
        LET pr == proc[p]
        IN pr.op = "payment_link" /\ pr.pc # "idle" /\ pr.args.amount <= 0 =>
              /\ pr.pc = "done"
              /\ pr.ret = TextRet("Invalid amount.", <<>>)
              /\ pr.log = <<>>
              /\ pr.fetched = <<>>
              /\ pr.linkCalls = <<>>

C20_Witness ==
    \E p \in Procs :
        /\ proc[p].op = "payment_link"
        /\ proc[p].pc = "done"
        /\ proc[p].args.amount = 0
        /\ proc[p].args.description = <<"d">>
        /\ proc[p].args.name = NameAB
        /\ proc[p].args.phone = GoodPhone
        /\ proc[p].ret.tag = "Invalid amount."
        /\ proc[p].log = <<>>

(***************************************************************************)
(* C21: a dispatcher call issues a GET when no body is supplied and a POST *)
(* carrying the body whenever one is supplied, the empty object included.  *)
(***************************************************************************)
C21_PostWheneverBodySupplied ==
    \A p \in Procs :
        LET pr == proc[p]
        IN pr.pc = "await_api" =>
              /\ Last(pr).req.method = IF pr.body.isNone THEN "GET" ELSE "POST"
              /\ ~pr.body.isNone => Last(pr).req.body = pr.body

(***************************************************************************)
(* C22: a static-mode call never triggers a refresh, builds its            *)
(* Authorization header from the static token and not from the session     *)
(* token, and leaves (access_token, token_type, expires_at) unchanged.      *)
(***************************************************************************)
StaticCallBypassesSession ==
    \A p \in Procs : \A i \in 1..Len(proc[p].log) :
        LET e == proc[p].log[i]
        IN e.stage = "static" =>
              /\ ~e.needsRefresh /\ e.refresh = "none" /\ e.idpReqs = 0
              /\ e.req # NoReq =>
                    /\ "auth_token" \in DOMAIN tm
                    /\ e.req.headers["Authorization"] = Bearer \o <<" ">> \o tm["auth_token"]

C22_StaticModeLeavesSessionToken ==
    /\ []StaticCallBypassesSession
    /\ [][\A p \in Procs :
             proc'[p].op = "static" /\ proc'[p] # proc[p] => Triple(tm') = Triple(tm)]_vars

C22_Witness ==
    \E p \in Procs :
        /\ proc[p].op = "static"
        /\ proc[p].pc = "done"
        /\ Present(tm.access_token)
        /\ refreshedOnce
        /\ Last(proc[p]).stage = "static"
        /\ Last(proc[p]).idpReqs = 0

(***************************************************************************)
(* What the masking rule says of an email with one "@" and a local part of *)
(* at least one character: the first 2 and last 2 characters of a local    *)
(* part of more than 4 are kept, only the first of a shorter one, every    *)
(* other character of the local part is an asterisk, the rest is as given. *)
(***************************************************************************)
OneAt(s) == Cardinality({i \in 1..Len(s) : s[i] = "@"}) = 1

AtIndex(s) == CHOOSE i \in 1..Len(s) : s[i] = "@"

MaskedByRule(email, res) ==
    LET n == AtIndex(email) - 1
    IN /\ Len(res) = Len(email)
       /\ \A i \in 1..Len(email) :
             res[i] = IF i > n THEN email[i]
                      ELSE IF n > 4 /\ (i <= 2 \/ i > n - 2) THEN email[i]
                      ELSE IF n <= 4 /\ i = 1 THEN email[i]
                      ELSE "*"

MaskEmailFollowsRule ==
    masked.fn = "mask_email" /\ OneAt(masked.arg) /\ AtIndex(masked.arg) > 1
        => MaskedByRule(masked.arg, masked.res)

(***************************************************************************)
(* C23, as claimed: mask_email follows the rule, and the two examples give *)
(* al******er@example.com and a*@example.com.                              *)
(***************************************************************************)
C23_MaskEmailWithClaimedExamples ==
    /\ MaskEmailFollowsRule
    /\ masked.fn = "mask_email" /\ masked.arg = AliceEmail => masked.res = <<"a", "l", "*", "*", "*", "*", "*", "*", "e", "r", "@", "e", "x", "a", "m", "p", "l", "e", ".", "c", "o", "m">>
    /\ masked.fn = "mask_email" /\ masked.arg = AbEmail => masked.res = <<"a", "*", "@", "e", "x", "a", "m", "p", "l", "e", ".", "c", "o", "m">>

(***************************************************************************)
(* C23, amended: mask_email follows the rule, and the result of a string   *)
(* with at most one "@" has the length of the input;                       *)
(* alice.wonder@example.com, whose local part has 12 characters, gives     *)
(* al********er@example.com, and ab@example.com gives a*@example.com.      *)
(***************************************************************************)
C23_MaskEmailRule ==
    /\ MaskEmailFollowsRule
    /\ masked.fn = "mask_email" /\ Cardinality({i \in 1..Len(masked.arg) : masked.arg[i] = "@"}) <= 1
          => Len(masked.res) = Len(masked.arg)
    /\ masked.fn = "mask_email" /\ masked.arg = AliceEmail => masked.res = <<"a", "l", "*", "*", "*", "*", "*", "*", "*", "*", "e", "r", "@", "e", "x", "a", "m", "p", "l", "e", ".", "c", "o", "m">>
    /\ masked.fn = "mask_email" /\ masked.arg = AbEmail => masked.res = <<"a", "*", "@", "e", "x", "a", "m", "p", "l", "e", ".", "c", "o", "m">>

C23_Witness ==
    /\ masked.fn = "mask_email"
    /\ masked.arg = AliceEmail
    /\ masked.res = <<"a", "l", "*", "*", "*", "*", "*", "*", "*", "*", "e", "r", "@", "e", "x", "a", "m", "p", "l", "e", ".", "c", "o", "m">>

(***************************************************************************)
(* C24: mask_phone of a string of length n >= 6 has length n, asterisks at *)
(* the four positions after the first floor(n/2)-2 characters and the true *)
(* characters everywhere else; a shorter string is returned unchanged.     *)
(***************************************************************************)
C24_MaskPhoneMiddleFour ==
    masked.fn = "mask_phone" =>
        LET n == Len(masked.arg)
            h == n \div 2
        IN IF n >= 6
           THEN /\ Len(masked.res) = n
                /\ \A i \in 1..n :
                      masked.res[i] = IF i > h - 2 /\ i <= h + 2 THEN "*" ELSE masked.arg[i]
           ELSE masked.res = masked.arg

C24_Witness ==
    /\ masked.fn = "mask_phone"
    /\ masked.arg = GoodPhone
    /\ masked.res = <<"9", "8", "7", "*", "*", "*", "*", "2", "1", "0">>

(***************************************************************************)
(* C25: the name, email and phone in the body of the link-creation request *)
(* are the unmasked resolved values (the caller's, or those of the single  *)
(* matched record), and every email and phone of the disambiguation        *)
(* listing is the mask_email / mask_phone of the candidate's.              *)
(***************************************************************************)
\* the identity create_payment_link resolves for link creation
Resolved(pr) ==
    IF Len(pr.customers) = 1
    THEN [email |-> pr.customers[1].email, name |-> pr.args.name,
          phone |-> pr.customers[1].phone]
    ELSE [email |-> pr.args.email, name |-> pr.args.name, phone |-> pr.args.phone]

C25_MaskingOnlyTowardsCaller ==
    \A p \in Procs :
        LET pr == proc[p]
        IN InCreatePaymentLink(pr) =>
              /\ pr.pc = "await_api" /\ Last(pr).stage = "link" =>
                    /\ Last(pr).req.method = "POST"
                    /\ Last(pr).req.body.d["customer"] = Resolved(pr)
              /\ pr.pc = "done" /\ pr.ret.tag = "Multiple customers found" =>
                    /\ Len(pr.ret.lines) = Len(pr.customers)
                    /\ \A i \in 1..Len(pr.ret.lines) :
                          /\ pr.ret.lines[i].email = mask_email(pr.customers[i].email)
                          /\ pr.ret.lines[i].phone = mask_phone(pr.customers[i].phone)

C25_Witness ==
    \E p \in Procs :
        /\ InCreatePaymentLink(proc[p])
        /\ proc[p].pc = "await_api"
        /\ Last(proc[p]).stage = "link"
        /\ Len(proc[p].customers) = 1
        /\ Last(proc[p]).req.body.d["customer"].email = GoodEmail
        /\ Last(proc[p]).req.body.d["customer"].phone = GoodPhone
        /\ mask_email(GoodEmail) # GoodEmail
        /\ mask_phone(GoodPhone) # GoodPhone

(***************************************************************************)
(* C26: when the client id or the client secret is not configured, every   *)
(* refresh_token call, the first and the later ones, returns False without *)
(* a request to the identity provider and without a change of state.       *)
(***************************************************************************)
C26_NoCredentialsNoTokenRequest ==
    ~Present(tm.client_id) \/ ~Present(tm.client_secret) =>
        /\ Triple(tm) = InitialTriple
        /\ ~refreshedOnce
        /\ \A p \in Procs :
              /\ proc[p].pc # "await_idp"
              /\ \A i \in SessionEntries(proc[p]) :
                    LET e == proc[p].log[i]
                    IN /\ e.needsRefresh /\ e.refresh = "false"
                       /\ e.idpReqs = 0 /\ e.sent = 0 /\ e.ret = "none"

C26_Witness ==
    \E p \in Procs :
        /\ Present(tm.client_id) /\ ~Present(tm.client_secret)
        /\ nInv = 2
        /\ proc[p].op = "session"
        /\ proc[p].pc = "done"
        /\ Last(proc[p]).refresh = "false"
        /\ Last(proc[p]).idpReqs = 0
        /\ Triple(tm) = InitialTriple

(***************************************************************************)
(* C27: a session-mode call made while the token is usable sends no        *)
(* request to the identity provider and goes straight to its request; the  *)
(* triple changes only in the step that takes the answer to a token        *)
(* request, which only a call that found the token unusable has sent.      *)
(***************************************************************************)
C27_NoRefreshWhileUsable ==
    /\ [](\A p \in Procs : \A i \in SessionEntries(proc[p]) :
             LET e == proc[p].log[i]
             IN (~e.needsRefresh => e.idpReqs = 0 /\ e.refresh = "none")
                /\ (e.idpReqs > 0 => e.needsRefresh))
    /\ [][\A p \in Procs : \A i \in SessionEntries(proc'[p]) :
             EntryAdded(p, i) /\ Present(tm'.access_token) /\ now' < tm'.expires_at - 300
                 => /\ ~proc'[p].log[i].needsRefresh
                    /\ proc'[p].log[i].idpReqs = 0
                    /\ proc'[p].log[i].sent = 1]_vars
    /\ [][Triple(tm') # Triple(tm) =>
             \E p \in Procs : proc[p].pc = "await_idp" /\ Last(proc[p]).needsRefresh]_vars

C27_Witness ==
    \E p \in Procs :
        /\ proc[p].op = "session"
        /\ proc[p].pc = "await_api"
        /\ Present(tm.access_token)
        /\ now < tm.expires_at - 300
        /\ ~Last(proc[p]).needsRefresh
        /\ Last(proc[p]).idpReqs = 0
        /\ Last(proc[p]).sent = 1

(***************************************************************************)
(* C28: every request sent to the payment API has Accept:                  *)
(* application/json, and has the merchant-id header if and only if a       *)
(* merchant id is configured.                                              *)
(***************************************************************************)
C28_AcceptAndMerchantHeaders ==
    \A p \in Procs :
        proc[p].pc = "await_api" =>
            LET headers == Last(proc[p]).req.headers
            IN /\ "Accept" \in DOMAIN headers
               /\ headers["Accept"] = ApplicationJson
               /\ "mid" \in DOMAIN headers <=> Present(tm.mid)
               /\ "mid" \in DOMAIN headers => headers["mid"] = tm.mid

(***************************************************************************)
(* C30: whenever the answer to the link-creation request contains a        *)
(* result, the payment_link tool returns the link details, in every branch *)
(* that reaches link creation.                                             *)
(***************************************************************************)
C30_LinkResultGivesDetails ==
    \A p \in Procs :
        LET pr == proc[p]
        IN /\ InCreatePaymentLink(pr)
           /\ pr.pc = "done"
           /\ pr.log # <<>>
           /\ Last(pr).stage = "link"
           /\ Last(pr).ret = "json"
           /\ "result" \in DOMAIN pr.mrRet.d
           => pr.ret.tag = "link details"

(***************************************************************************)
(* C29: given that every outbound HTTP call completes or times out, every  *)
(* invocation eventually returns to its caller, after at most one token    *)
(* request and one API request for a session-mode call, at most one        *)
(* request for a static-mode call, and at most two token requests, one     *)
(* directory search and one link-creation request for create_payment_link. *)
(***************************************************************************)
TokenRequests(pr) == Cardinality({i \in 1..Len(pr.log) : pr.log[i].idpReqs > 0})

BoundedOutboundCalls ==
    \A p \in Procs :
        LET pr == proc[p]
        IN /\ \A i \in 1..Len(pr.log) : pr.log[i].idpReqs <= 1 /\ pr.log[i].sent <= 1
           /\ pr.op = "session" => Len(pr.log) <= 1
           /\ pr.op = "static" => Len(pr.log) <= 1 /\ TokenRequests(pr) = 0
           /\ pr.op = "payment_link" =>
                 /\ TokenRequests(pr) <= 2
                 /\ Cardinality(StageEntries(pr, "search")) <= 1
                 /\ Cardinality(StageEntries(pr, "link")) <= 1
                 /\ Len(pr.log) <= 2

C29_EveryOperationTerminates ==
    /\ []BoundedOutboundCalls
    /\ (proc["p1"].pc # "idle") ~> (proc["p1"].pc = "done")

C29_Witness ==
    \E p \in Procs :
        /\ proc[p].op = "payment_link"
        /\ proc[p].pc = "done"
        /\ TokenRequests(proc[p]) = 2
        /\ Cardinality(StageRequests(proc[p], "search")) = 1
        /\ Cardinality(StageRequests(proc[p], "link")) = 1

====
